---- MODULE Spec2Model ----
(***************************************************************************)
(* A model of dasl-/scaredy-cat: the two face detectors (scaredycat        *)
(* ScaredyCat.run, watchcat WatchCat.run), the two TickControllers         *)
(* (scaredycat, watchcat) and the watchcat stepper Motor, each translated  *)
(* from its source.                                                        *)
(*                                                                         *)
(* Units: scores and gaze percentages are counted in hundredths (0.9 is    *)
(* 90), widths, heights and landmark offsets in pixels, servo pulse widths *)
(* in the units passed to set_servo_pulsewidth.                            *)
(***************************************************************************)
EXTENDS Integers, Sequences, FiniteSets, TLC

VARIABLES
    running,        \* the processes that run in this behaviour (fixed by Init)
    chan,           \* the stream of /tmp/motor_unix_socket: payloads sent, not yet received
    \* ---- scaredycat/scaredycat.py, ScaredyCat ----
    sc_num_consecutive_face_frames,   \* self.__num_consecutive_face_frames
    sc_num_consecutive_empty_frames,  \* self.__num_consecutive_empty_frames
    sc_confirmed_face_locations,      \* self.__confirmed_face_locations
    sc_unconfirmed_face_locations,    \* self.__unconfirmed_face_locations
    sc_is_paused,                     \* run()'s local is_paused
    sc_crop_x0,                       \* self.__crop_x0, as __setup_crop left it
    sc_sent,        \* history: every message run() has passed to send_msg
    sc_frames,      \* history: number of loop iterations completed
    sc_last,        \* history: what the last loop iteration saw and did
    sc_empty_run,   \* history: length of the run of empty-filtered frames ending now
    \* ---- watchcat/watchcat.py, WatchCat ----
    wc_num_consecutive_face_frames,
    wc_num_consecutive_empty_frames,
    wc_confirmed_face_locations,
    wc_is_paused,
    wc_sent,
    wc_frames,
    wc_last,
    wc_face_run,    \* history: length of the run of non-empty frames ending now
    \* ---- scaredycat/tickcontroller.py, TickController ----
    tc_pc,          \* where the controller is: "init" (in __init__), "read",
                    \* "unpause_ramp", "pulse", "pulse_off", "pause_ramp",
                    \* "raised" (ended by the exception of line 57) or
                    \* "attribute_error" (ended by an AttributeError)
    tc_has_paused,  \* whether self.__paused has been assigned
    tc_paused,      \* self.__paused (FALSE stands in until it is assigned)
    tc_nextPosition,\* the local nextPosition of __pause and __unpause
    tc_i,           \* the i of __unpause's for loop
    tc_servo,       \* last pulse width given to set_servo_pulsewidth (0: none yet)
    tc_magnet,      \* last level given to GPIO.output(MAGNET_PIN, .)
    tc_log,         \* history: the outputs issued while handling the last message read
    tc_last,        \* history: the last message read and the state it was read in
    tc_recv,        \* history: every message of the detector that recv_msg has
                    \* returned (kept when the detector is the sender)
    \* ---- watchcat/tickcontroller.py, TickController ----
    wt_pc,          \* "init" (in __init__), "read" (run()'s blocking read),
                    \* "unpause" (inside __unpause), "raised" (ended by the
                    \* exception of line 61) or "attribute_error"
    wt_stack,       \* the calls of __unpause that have not returned, outermost
                    \* first: for each the i of its for loop, where it is
                    \* (at) and whether one of its polls has read a message
                    \* (cut)
    wt_paused,      \* self.__paused
    wt_servo,       \* last pulse width given to set_servo_pulsewidth
    wt_magnet,      \* last level given to GPIO.output(MAGNET_PIN, .)
    wt_last,        \* history: the last message read, and whether a
                    \* bounded-timeout poll read it
    \* ---- watchcat/motor.py, Motor ----
    m_pc,           \* "calibrate", "loop", or "raised"
    m_i,            \* the i of calibrate_position's for loop
    m_paused,       \* self.__paused
    m_position,     \* self.__position
    m_direction,    \* self.__direction
    m_motor_step_counter, \* self.__motor_step_counter
    m_signal,       \* run()'s local signal
    m_pins,         \* the levels last written to the four motor pins
    m_last,         \* history: the state the last loop iteration started in
    m_sweep,        \* history: since a loop iteration last started at
                    \* LEFT_POSITION: the step counter it started with, the
                    \* number of calls of __step, whether every position
                    \* reached was within the two extremes
    \* ---- the three filters of ScaredyCat, applied to one input ----
    flt             \* the input (the detector's candidates, the confirmed set,
                    \* the crop offset) and, once filtered, the results

sc_vars == <<sc_num_consecutive_face_frames, sc_num_consecutive_empty_frames,
             sc_confirmed_face_locations, sc_unconfirmed_face_locations,
             sc_is_paused, sc_crop_x0, sc_sent, sc_frames, sc_last, sc_empty_run>>

wc_vars == <<wc_num_consecutive_face_frames, wc_num_consecutive_empty_frames,
             wc_confirmed_face_locations, wc_is_paused, wc_sent, wc_frames,
             wc_last, wc_face_run>>

tc_vars == <<tc_pc, tc_has_paused, tc_paused, tc_nextPosition, tc_i, tc_servo,
             tc_magnet, tc_log, tc_last, tc_recv>>

wt_vars == <<wt_pc, wt_stack, wt_paused, wt_servo, wt_magnet, wt_last>>

m_vars == <<m_pc, m_i, m_paused, m_position, m_direction, m_motor_step_counter,
            m_signal, m_pins, m_last, m_sweep>>

vars == <<running, chan, sc_vars, wc_vars, tc_vars, wt_vars, m_vars, flt>>

(***************************************************************************)
(* Bounds of the model.                                                    *)
(***************************************************************************)
\* loop iterations of ScaredyCat.run that are observed
MaxSCFrames == 11
\* loop iterations of WatchCat.run that are observed
MaxWCFrames == 11
\* payloads a client may have in flight to the actuator
MaxChan == 2
\* candidates in one input of the filters
MaxFilterFaces == 2
\* calls of the watchcat TickController's __unpause that are in progress at once
MaxDepth == 2

(***************************************************************************)
(* Message names.                                                          *)
(***************************************************************************)
PAUSE_SIGNAL == "pause"
UNPAUSE_SIGNAL == "unpause"
RUN_SIGNAL == "run"

(***************************************************************************)
(* UnixSocketHelper, which both ends use for the socket: one stream        *)
(* connection, written by the client and read by the server, each payload  *)
(* received whole and in the order sent. `stream` is what has been sent    *)
(* and not yet received.                                                   *)
(***************************************************************************)
\* the stream after send_msg of each payload of msgs, in order
send_msg(stream, msgs) == stream \o msgs
\* is_ready_to_read: a payload is there to be received
is_ready_to_read(stream) == stream # <<>>
\* the payload recv_msg returns, and the stream it leaves
recv_msg(stream) == Head(stream)
after_recv_msg(stream) == Tail(stream)

(***************************************************************************)
(* ScaredyCat: thresholds.                                                 *)
(***************************************************************************)
SC_NUM_CONSECUTIVE_FACE_FRAMES_TO_CONFIRM_FACE == 1
SC_NUM_CONSECUTIVE_EMPTY_FRAMES_TO_CONFIRM_EMPTY == 5
INIT_MIN_W == 24
INIT_MIN_H == 30
REPEAT_MIN_W == 18
REPEAT_MIN_H == 22
INIT_MIN_SCORE == 90
REPEAT_MIN_SCORE == 40
\* mid_col_pct of __filterFacesByGaze, initial and repeat
INIT_GAZE_RANGE == 20
REPEAT_GAZE_RANGE == 28
\* top_k of the face detector: it returns at most this many candidates
TOP_K == 1

(***************************************************************************)
(* A candidate of the face detector: the x of its box (within the cropped  *)
(* image), its score, the width and height of its box, and off, the sum    *)
(* over the five landmarks of (landmark x minus box x).                    *)
(***************************************************************************)
Face(x, score, w, h, off) ==
    [x |-> x, score |-> score, w |-> w, h |-> h, off |-> off]

\* Values of self.__crop_x0: __setup_crop on a 300 pixel wide image with
\* mid_col_pct = 1/3, horizontal_offset_pct 0 and -0.1
CropOffsets == { 100, 130 }

\* Candidates the frames of the model are drawn from: one that passes the
\* initial thresholds, ones that pass only the repeat thresholds (on the
\* score, on the size, on the gaze), and ones that pass neither.
RawFaces ==
    { Face(35, 95, 30, 40, 75),     \* gaze 0.50
      Face(35, 50, 30, 40, 75),     \* score below initial, above repeat
      Face(40, 95, 20, 25, 50),     \* size below initial, above repeat
      Face(35, 95, 30, 40, 95),     \* gaze 0.37: outside initial, inside repeat
      Face(35, 30, 30, 40, 75),     \* score below both
      Face(35, 95, 30, 40, 105) }   \* gaze 0.30: outside both

RECURSIVE SeqsUpTo(_, _)
SeqsUpTo(S, n) ==
    IF n = 0 THEN { <<>> }
    ELSE LET shorter == SeqsUpTo(S, n - 1)
         IN  shorter \cup { Append(s, x) : s \in { t \in shorter : Len(t) = n - 1 }, x \in S }

\* What face_detector.detect can return for one frame (None read as []).
SCDetections == SeqsUpTo(RawFaces, TOP_K)

(***************************************************************************)
(* round(q, 0) of the rational num/den (den > 0), ties to even, as         *)
(* Python's round.                                                         *)
(***************************************************************************)
RoundDiv(num, den) ==
    LET fl  == num \div den
        rem == num % den
    IN  IF 2 * rem < den THEN fl
        ELSE IF 2 * rem > den THEN fl + 1
        ELSE IF fl % 2 = 0 THEN fl ELSE fl + 1

\* gaze_pct of __filterFacesByGaze, in hundredths:
\* round(1 - (sum of the five offsets) / 5 / face_w, 2)
GazePct(face) == RoundDiv(100 * (5 * face.w - face.off), 5 * face.w)

\* min_gaze_pct and max_gaze_pct of __filterFacesByGaze, in hundredths
MinGazePct(mid_col_pct) == RoundDiv(100 - mid_col_pct, 2)
MaxGazePct(mid_col_pct) == RoundDiv(100 - mid_col_pct + 2 * mid_col_pct, 2)

\* "initial detection" of the three filters: len(confirmed) <= 0
IsInitialDetection(confirmed) == Len(confirmed) <= 0

\* filterFacesByScore with the initial threshold in both branches
filterFacesByScore_UsesInitial(face_locations, confirmed) ==
    LET min_score == INIT_MIN_SCORE
        keep(f) == f.score >= min_score
    IN  SelectSeq(face_locations, keep)

filterFacesByScore(face_locations, confirmed) ==
    LET min_score == IF IsInitialDetection(confirmed)
                     THEN INIT_MIN_SCORE ELSE REPEAT_MIN_SCORE
        keep(f) == f.score >= min_score
    IN  SelectSeq(face_locations, keep)

\* filterFacesByDimensions with the initial thresholds in both branches
filterFacesByDimensions_UsesInitial(face_locations, confirmed, crop_x0) ==
    LET min_w == INIT_MIN_W
        min_h == INIT_MIN_H
        keep(f) == f.w >= min_w /\ f.h >= min_h
    IN  SelectSeq(face_locations, keep)

filterFacesByDimensions(face_locations, confirmed, crop_x0) ==
    LET min_w == IF IsInitialDetection(confirmed) THEN INIT_MIN_W ELSE REPEAT_MIN_W
        min_h == IF IsInitialDetection(confirmed) THEN INIT_MIN_H ELSE REPEAT_MIN_H
        keep(f) == LET x == f.x + crop_x0     \* line 274; line 275 does not use it
                   IN  f.w >= min_w /\ f.h >= min_h
    IN  SelectSeq(face_locations, keep)

\* filterFacesByGaze with < for the second <= of line 322
filterFacesByGaze_ExclusiveUpper(face_locations, confirmed) ==
    LET mid_col_pct == IF IsInitialDetection(confirmed)
                       THEN INIT_GAZE_RANGE ELSE REPEAT_GAZE_RANGE
        min_gaze_pct == MinGazePct(mid_col_pct)
        max_gaze_pct == MaxGazePct(mid_col_pct)
        keep(f) == min_gaze_pct <= GazePct(f) /\ GazePct(f) < max_gaze_pct
    IN  SelectSeq(face_locations, keep)

\* __filterFacesByGaze with a repeat range of half the initial range
filterFacesByGaze_RepeatNarrower(face_locations, confirmed) ==
    LET mid_col_pct == IF IsInitialDetection(confirmed)
                       THEN INIT_GAZE_RANGE ELSE INIT_GAZE_RANGE \div 2
        min_gaze_pct == MinGazePct(mid_col_pct)
        max_gaze_pct == MaxGazePct(mid_col_pct)
        keep(f) == min_gaze_pct <= GazePct(f) /\ GazePct(f) <= max_gaze_pct
    IN  SelectSeq(face_locations, keep)

filterFacesByGaze(face_locations, confirmed) ==
    LET mid_col_pct == IF IsInitialDetection(confirmed)
                       THEN INIT_GAZE_RANGE ELSE REPEAT_GAZE_RANGE
        min_gaze_pct == MinGazePct(mid_col_pct)
        max_gaze_pct == MaxGazePct(mid_col_pct)
        keep(f) == min_gaze_pct <= GazePct(f) /\ GazePct(f) <= max_gaze_pct
    IN  SelectSeq(face_locations, keep)

\* Lines 191-196 of ScaredyCat.run: each filter runs only on a non-empty list.
SCFilter(face_locations, confirmed, crop_x0) ==
    LET s1 == IF Len(face_locations) > 0
              THEN filterFacesByScore(face_locations, confirmed) ELSE face_locations
        s2 == IF Len(s1) > 0 THEN filterFacesByDimensions(s1, confirmed, crop_x0) ELSE s1
        s3 == IF Len(s2) > 0 THEN filterFacesByGaze(s2, confirmed) ELSE s2
    IN  s3

(***************************************************************************)
(* The filters as functions: inputs drawn from the sets below, the three   *)
(* filters applied as lines 191-196 apply them, and each one alone.        *)
(***************************************************************************)
\* 100 pixel wide boxes whose gaze percentage is g hundredths
GazeFace(g) == Face(35, 95, 100, 100, 500 - 5 * g)

FilterFaces ==
    RawFaces
    \cup { GazeFace(g) : g \in { 35, 36, 39, 40, 60, 61, 64, 65 } }
    \cup { Face(40, 95, 23, 30, 58),    \* one pixel narrower than INIT_MIN_W
           Face(40, 95, 24, 29, 60),    \* one pixel lower than INIT_MIN_H
           Face(40, 95, 24, 30, 60),
           Face(40, 95, 17, 22, 43),    \* one pixel narrower than REPEAT_MIN_W
           Face(40, 95, 18, 22, 45),
           Face(35, 90, 30, 40, 75),    \* scores at and next to the thresholds
           Face(35, 89, 30, 40, 75),
           Face(35, 40, 30, 40, 75),
           Face(35, 39, 30, 40, 75) }

\* self.__confirmed_face_locations: empty, or the candidate confirmed last
FilterConfirmed == { <<>>, << Face(35, 95, 30, 40, 75) >> }

FilterInit ==
    \E faces \in SeqsUpTo(FilterFaces, MaxFilterFaces) :
    \E confirmed \in FilterConfirmed :
    \E crop_x0 \in CropOffsets :
        flt = [stage |-> "detected", faces |-> faces, confirmed |-> confirmed,
               crop_x0 |-> crop_x0, out |-> faces, by_score |-> faces,
               by_dimensions |-> faces, by_gaze |-> faces]

\* lines 191-196 on flt's input, and each filter on that same input
FilterApply ==
    /\ flt.stage = "detected"
    /\ flt' = [flt EXCEPT
                 !.stage = "filtered",
                 !.out = SCFilter(flt.faces, flt.confirmed, flt.crop_x0),
                 !.by_score = filterFacesByScore(flt.faces, flt.confirmed),
                 !.by_dimensions =
                     filterFacesByDimensions(flt.faces, flt.confirmed, flt.crop_x0),
                 !.by_gaze = filterFacesByGaze(flt.faces, flt.confirmed)]
    /\ UNCHANGED <<running, chan, sc_vars, wc_vars, tc_vars, wt_vars, m_vars>>

(***************************************************************************)
(* ScaredyCat.__init__ and the first line of run().                        *)
(***************************************************************************)
SCInit ==
    /\ sc_num_consecutive_face_frames = 0
    /\ sc_num_consecutive_empty_frames = 0
    /\ sc_confirmed_face_locations = <<>>
    /\ sc_unconfirmed_face_locations = <<>>
    /\ sc_is_paused = FALSE
    /\ sc_crop_x0 \in CropOffsets
    /\ sc_sent = <<>>
    /\ sc_frames = 0
    /\ sc_last = [faces |-> <<>>, was_paused |-> FALSE, sent |-> <<>>]
    /\ sc_empty_run = 0

\* SCFaceFrame with > for the >= of line 200
SCFaceFrame_ConfirmsLate(face_locations) ==
    LET n == sc_num_consecutive_face_frames + 1
        confirm == n > SC_NUM_CONSECUTIVE_FACE_FRAMES_TO_CONFIRM_FACE
        msgs == IF confirm /\ ~sc_is_paused THEN << PAUSE_SIGNAL >> ELSE <<>>
    IN  /\ sc_num_consecutive_face_frames' = n
        /\ sc_num_consecutive_empty_frames' =
              IF confirm THEN 0 ELSE sc_num_consecutive_empty_frames
        /\ sc_confirmed_face_locations' =
              IF confirm THEN face_locations ELSE sc_confirmed_face_locations
        /\ sc_unconfirmed_face_locations' =
              IF confirm THEN <<>> ELSE face_locations
        /\ sc_is_paused' = IF confirm THEN TRUE ELSE sc_is_paused
        /\ sc_sent' = sc_sent \o msgs
        /\ chan' = send_msg(chan, msgs)
        /\ sc_last' = [faces |-> face_locations, was_paused |-> sc_is_paused,
                       sent |-> msgs]
        /\ sc_empty_run' = 0

\* SCFaceFrame without the test of is_paused of line 204
SCFaceFrame_SendsEveryFrame(face_locations) ==
    LET n == sc_num_consecutive_face_frames + 1
        confirm == n >= SC_NUM_CONSECUTIVE_FACE_FRAMES_TO_CONFIRM_FACE
        msgs == IF confirm THEN << PAUSE_SIGNAL >> ELSE <<>>
    IN  /\ sc_num_consecutive_face_frames' = n
        /\ sc_num_consecutive_empty_frames' =
              IF confirm THEN 0 ELSE sc_num_consecutive_empty_frames
        /\ sc_confirmed_face_locations' =
              IF confirm THEN face_locations ELSE sc_confirmed_face_locations
        /\ sc_unconfirmed_face_locations' =
              IF confirm THEN <<>> ELSE face_locations
        /\ sc_is_paused' = IF confirm THEN TRUE ELSE sc_is_paused
        /\ sc_sent' = sc_sent \o msgs
        /\ chan' = send_msg(chan, msgs)
        /\ sc_last' = [faces |-> face_locations, was_paused |-> sc_is_paused,
                       sent |-> msgs]
        /\ sc_empty_run' = 0

(***************************************************************************)
(* One iteration of the loop of ScaredyCat.run on the detector's result    *)
(* `detected`, lines 175-223.                                              *)
(***************************************************************************)
SCFaceFrame(face_locations) ==
    LET n == sc_num_consecutive_face_frames + 1
        confirm == n >= SC_NUM_CONSECUTIVE_FACE_FRAMES_TO_CONFIRM_FACE
        msgs == IF confirm /\ ~sc_is_paused THEN << PAUSE_SIGNAL >> ELSE <<>>
    IN  /\ sc_num_consecutive_face_frames' = n
        /\ sc_num_consecutive_empty_frames' =
              IF confirm THEN 0 ELSE sc_num_consecutive_empty_frames
        /\ sc_confirmed_face_locations' =
              IF confirm THEN face_locations ELSE sc_confirmed_face_locations
        /\ sc_unconfirmed_face_locations' =
              IF confirm THEN <<>> ELSE face_locations
        /\ sc_is_paused' = IF confirm THEN TRUE ELSE sc_is_paused
        /\ sc_sent' = sc_sent \o msgs
        /\ chan' = send_msg(chan, msgs)
        /\ sc_last' = [faces |-> face_locations, was_paused |-> sc_is_paused,
                       sent |-> msgs]
        /\ sc_empty_run' = 0

\* SCEmptyFrame without the clearing of line 215
SCEmptyFrame_KeepsConfirmed(face_locations) ==
    LET n == sc_num_consecutive_empty_frames + 1
        unconfirm == n >= SC_NUM_CONSECUTIVE_EMPTY_FRAMES_TO_CONFIRM_EMPTY
        msgs == IF unconfirm /\ sc_is_paused THEN << UNPAUSE_SIGNAL >> ELSE <<>>
    IN  /\ sc_unconfirmed_face_locations' = <<>>
        /\ sc_num_consecutive_empty_frames' = n
        /\ sc_num_consecutive_face_frames' =
              IF unconfirm THEN 0 ELSE sc_num_consecutive_face_frames
        /\ sc_confirmed_face_locations' =
              sc_confirmed_face_locations
        /\ sc_is_paused' = IF unconfirm THEN FALSE ELSE sc_is_paused
        /\ sc_sent' = sc_sent \o msgs
        /\ chan' = send_msg(chan, msgs)
        /\ sc_last' = [faces |-> face_locations, was_paused |-> sc_is_paused,
                       sent |-> msgs]
        /\ sc_empty_run' = sc_empty_run + 1

\* SCEmptyFrame with > for the >= of line 213
SCEmptyFrame_UnconfirmsLate(face_locations) ==
    LET n == sc_num_consecutive_empty_frames + 1
        unconfirm == n > SC_NUM_CONSECUTIVE_EMPTY_FRAMES_TO_CONFIRM_EMPTY
        msgs == IF unconfirm /\ sc_is_paused THEN << UNPAUSE_SIGNAL >> ELSE <<>>
    IN  /\ sc_unconfirmed_face_locations' = <<>>
        /\ sc_num_consecutive_empty_frames' = n
        /\ sc_num_consecutive_face_frames' =
              IF unconfirm THEN 0 ELSE sc_num_consecutive_face_frames
        /\ sc_confirmed_face_locations' =
              IF unconfirm THEN <<>> ELSE sc_confirmed_face_locations
        /\ sc_is_paused' = IF unconfirm THEN FALSE ELSE sc_is_paused
        /\ sc_sent' = sc_sent \o msgs
        /\ chan' = send_msg(chan, msgs)
        /\ sc_last' = [faces |-> face_locations, was_paused |-> sc_is_paused,
                       sent |-> msgs]
        /\ sc_empty_run' = sc_empty_run + 1

\* SCEmptyFrame sending UNPAUSE without the test of line 215
SCEmptyFrame_SendsUnguarded(face_locations) ==
    LET n == sc_num_consecutive_empty_frames + 1
        unconfirm == n >= SC_NUM_CONSECUTIVE_EMPTY_FRAMES_TO_CONFIRM_EMPTY
        msgs == IF unconfirm THEN << UNPAUSE_SIGNAL >> ELSE <<>>
    IN  /\ sc_unconfirmed_face_locations' = <<>>
        /\ sc_num_consecutive_empty_frames' = n
        /\ sc_num_consecutive_face_frames' =
              IF unconfirm THEN 0 ELSE sc_num_consecutive_face_frames
        /\ sc_confirmed_face_locations' =
              IF unconfirm THEN <<>> ELSE sc_confirmed_face_locations
        /\ sc_is_paused' = IF unconfirm THEN FALSE ELSE sc_is_paused
        /\ sc_sent' = sc_sent \o msgs
        /\ chan' = send_msg(chan, msgs)
        /\ sc_last' = [faces |-> face_locations, was_paused |-> sc_is_paused,
                       sent |-> msgs]
        /\ sc_empty_run' = sc_empty_run + 1

SCEmptyFrame(face_locations) ==
    LET n == sc_num_consecutive_empty_frames + 1
        unconfirm == n >= SC_NUM_CONSECUTIVE_EMPTY_FRAMES_TO_CONFIRM_EMPTY
        msgs == IF unconfirm /\ sc_is_paused THEN << UNPAUSE_SIGNAL >> ELSE <<>>
    IN  /\ sc_unconfirmed_face_locations' = <<>>
        /\ sc_num_consecutive_empty_frames' = n
        /\ sc_num_consecutive_face_frames' =
              IF unconfirm THEN 0 ELSE sc_num_consecutive_face_frames
        /\ sc_confirmed_face_locations' =
              IF unconfirm THEN <<>> ELSE sc_confirmed_face_locations
        /\ sc_is_paused' = IF unconfirm THEN FALSE ELSE sc_is_paused
        /\ sc_sent' = sc_sent \o msgs
        /\ chan' = send_msg(chan, msgs)
        /\ sc_last' = [faces |-> face_locations, was_paused |-> sc_is_paused,
                       sent |-> msgs]
        /\ sc_empty_run' = sc_empty_run + 1

SCFrame(detected) ==
    /\ "ScaredyCat" \in running
    /\ sc_frames < MaxSCFrames
    /\ sc_frames' = sc_frames + 1
    /\ LET face_locations == SCFilter(detected, sc_confirmed_face_locations,
                                      sc_crop_x0)
       IN  IF Len(face_locations) > 0
           THEN SCFaceFrame(face_locations)
           ELSE SCEmptyFrame(face_locations)
    /\ UNCHANGED <<sc_crop_x0, wt_vars, flt, running, wc_vars, tc_vars, m_vars>>

SCNext == \E detected \in SCDetections : SCFrame(detected)

(***************************************************************************)
(* WatchCat: thresholds, and what detectMultiScale can return.             *)
(***************************************************************************)
WC_NUM_CONSECUTIVE_FACE_FRAMES_TO_CONFIRM_FACE == 3
WC_NUM_CONSECUTIVE_EMPTY_FRAMES_TO_CONFIRM_EMPTY == 5

\* (x, y, w, h) rectangles
WCRects == { <<10, 20, 40, 40>>, <<60, 30, 25, 25>> }
WCDetections == { <<>> } \cup { << r >> : r \in WCRects }
                 \cup { p \in WCRects \X WCRects : p[1] # p[2] }

WCInit ==
    /\ wc_num_consecutive_face_frames = 0
    /\ wc_num_consecutive_empty_frames = 0
    /\ wc_confirmed_face_locations = <<>>
    /\ wc_is_paused = FALSE
    /\ wc_sent = <<>>
    /\ wc_frames = 0
    /\ wc_last = [faces |-> <<>>, was_paused |-> FALSE, sent |-> <<>>]
    /\ wc_face_run = 0

(***************************************************************************)
(* One iteration of the loop of WatchCat.run, lines 114-163.               *)
(***************************************************************************)
\* WCFaceFrame without the reset of line 145
WCFaceFrame_KeepsEmptyCount(face_locations) ==
    LET n == wc_num_consecutive_face_frames + 1
        confirm == n >= WC_NUM_CONSECUTIVE_FACE_FRAMES_TO_CONFIRM_FACE
        msgs == IF confirm /\ ~wc_is_paused THEN << PAUSE_SIGNAL >> ELSE <<>>
    IN  /\ wc_num_consecutive_face_frames' = n
        /\ wc_num_consecutive_empty_frames' = wc_num_consecutive_empty_frames
        /\ wc_confirmed_face_locations' =
              IF confirm THEN face_locations ELSE wc_confirmed_face_locations
        /\ wc_is_paused' = IF confirm THEN TRUE ELSE wc_is_paused
        /\ wc_sent' = wc_sent \o msgs
        /\ chan' = send_msg(chan, msgs)
        /\ wc_last' = [faces |-> face_locations, was_paused |-> wc_is_paused,
                       sent |-> msgs]
        /\ wc_face_run' = wc_face_run + 1

\* lines 142-150: a frame in which detectMultiScale found something
WCFaceFrame(face_locations) ==
    LET n == wc_num_consecutive_face_frames + 1
        confirm == n >= WC_NUM_CONSECUTIVE_FACE_FRAMES_TO_CONFIRM_FACE
        msgs == IF confirm /\ ~wc_is_paused THEN << PAUSE_SIGNAL >> ELSE <<>>
    IN  /\ wc_num_consecutive_face_frames' = n
        /\ wc_num_consecutive_empty_frames' =
              IF confirm THEN 0 ELSE wc_num_consecutive_empty_frames
        /\ wc_confirmed_face_locations' =
              IF confirm THEN face_locations ELSE wc_confirmed_face_locations
        /\ wc_is_paused' = IF confirm THEN TRUE ELSE wc_is_paused
        /\ wc_sent' = wc_sent \o msgs
        /\ chan' = send_msg(chan, msgs)
        /\ wc_last' = [faces |-> face_locations, was_paused |-> wc_is_paused,
                       sent |-> msgs]
        /\ wc_face_run' = wc_face_run + 1

WCEmptyFrame(face_locations) ==
    LET n == wc_num_consecutive_empty_frames + 1
        unconfirm == n >= WC_NUM_CONSECUTIVE_EMPTY_FRAMES_TO_CONFIRM_EMPTY
        msgs == IF unconfirm /\ wc_is_paused THEN << UNPAUSE_SIGNAL >> ELSE <<>>
    IN  /\ wc_num_consecutive_empty_frames' = n
        /\ wc_num_consecutive_face_frames' =
              IF unconfirm THEN 0 ELSE wc_num_consecutive_face_frames
        /\ wc_confirmed_face_locations' =
              IF unconfirm THEN <<>> ELSE wc_confirmed_face_locations
        /\ wc_is_paused' = IF unconfirm THEN FALSE ELSE wc_is_paused
        /\ wc_sent' = wc_sent \o msgs
        /\ chan' = send_msg(chan, msgs)
        /\ wc_last' = [faces |-> face_locations, was_paused |-> wc_is_paused,
                       sent |-> msgs]
        /\ wc_face_run' = 0

WCFrame(face_locations) ==
    /\ "WatchCat" \in running
    /\ wc_frames < MaxWCFrames
    /\ wc_frames' = wc_frames + 1
    /\ IF Len(face_locations) > 0
       THEN WCFaceFrame(face_locations)
       ELSE WCEmptyFrame(face_locations)
    /\ UNCHANGED <<wt_vars, flt, running, sc_vars, tc_vars, m_vars>>

WCNext == \E face_locations \in WCDetections : WCFrame(face_locations)

(***************************************************************************)
(* A client of the actuator's socket that may send any of these payloads   *)
(* in any order (the actuators are servers: whatever connects may write).  *)
(***************************************************************************)
ClientPayloads == { PAUSE_SIGNAL, UNPAUSE_SIGNAL, RUN_SIGNAL }

\* UnixSocketHelper.send_msg by the client
ClientSend(payload) ==
    /\ "Client" \in running
    /\ Len(chan) < MaxChan
    /\ chan' = send_msg(chan, << payload >>)
    /\ UNCHANGED <<wt_vars, flt, running, sc_vars, wc_vars, tc_vars, m_vars>>

ClientNext == \E payload \in ClientPayloads : ClientSend(payload)

(***************************************************************************)
(* scaredycat TickController.                                              *)
(***************************************************************************)
SERVO_PAUSE_POSITION == 1050
SERVO_UNPAUSE_POSITION == 800
\* the step of both ramps (nextPosition - 10, nextPosition + 10)
RAMP_STEP == 10
\* range(5) of __unpause
NUM_PULSES == 5

\* the outputs, as they are written to tc_log
ServoOut(pulsewidth) == << "servo", pulsewidth >>
MagnetOut(level) == << "magnet", IF level THEN 1 ELSE 0 >>

\* With "Construction" in running the controller starts inside __init__, at
\* line 32, the socket accepted (lines 23-29 assign __logger, __pwm and
\* __unix_socket_helper, nothing else). Otherwise it starts where run()
\* starts, in the state __init__'s last step ("Set initial state",
\* self.__unpause()) is written to leave, with no output observed yet.
TCInit ==
    /\ tc_pc = IF "Construction" \in running THEN "init" ELSE "read"
    /\ tc_has_paused = ("Construction" \notin running)
    /\ tc_paused = FALSE
    /\ tc_nextPosition = 0
    /\ tc_i = 0
    /\ tc_servo = 0
    /\ tc_magnet = FALSE
    /\ tc_log = <<>>
    /\ tc_last = [signal |-> "", prev |-> "", was_paused |-> FALSE,
                  servo |-> 0, magnet |-> FALSE]
    /\ tc_recv = <<>>

\* TC_unpause without the assignment of line 64
TC_unpause_LeavesFlag ==
    IF ~tc_has_paused
    THEN /\ tc_pc' = "attribute_error"
         /\ UNCHANGED <<tc_has_paused, tc_paused, tc_nextPosition>>
    ELSE IF tc_paused = FALSE
    THEN /\ tc_pc' = "read"
         /\ UNCHANGED <<tc_has_paused, tc_paused, tc_nextPosition>>
    ELSE /\ tc_nextPosition' = SERVO_PAUSE_POSITION
         /\ tc_pc' = "unpause_ramp"
         /\ UNCHANGED <<tc_has_paused, tc_paused>>

\* __unpause, lines 60-70: the guard, the flag, the start of the ramp
TC_unpause ==
    IF ~tc_has_paused
    THEN \* line 61 reads an attribute that nothing has assigned: AttributeError
         /\ tc_pc' = "attribute_error"
         /\ UNCHANGED <<tc_has_paused, tc_paused, tc_nextPosition>>
    ELSE IF tc_paused = FALSE
    THEN /\ tc_pc' = "read"
         /\ UNCHANGED <<tc_has_paused, tc_paused, tc_nextPosition>>
    ELSE /\ tc_paused' = FALSE
         /\ tc_has_paused' = TRUE
         /\ tc_nextPosition' = SERVO_PAUSE_POSITION
         /\ tc_pc' = "unpause_ramp"

\* __pause without the guard of lines 94-95
TC_pause_Unguarded ==
    /\ tc_paused' = TRUE
    /\ tc_has_paused' = TRUE
    /\ tc_nextPosition' = SERVO_UNPAUSE_POSITION
    /\ tc_pc' = "pause_ramp"

\* TC_pause starting its ramp one step above SERVO_UNPAUSE_POSITION
TC_pause_StartsOneStepIn ==
    IF ~tc_has_paused
    THEN /\ tc_pc' = "attribute_error"
         /\ UNCHANGED <<tc_has_paused, tc_paused, tc_nextPosition>>
    ELSE IF tc_paused
    THEN /\ tc_pc' = "read"
         /\ UNCHANGED <<tc_has_paused, tc_paused, tc_nextPosition>>
    ELSE /\ tc_paused' = TRUE
         /\ tc_has_paused' = TRUE
         /\ tc_nextPosition' = SERVO_UNPAUSE_POSITION + RAMP_STEP
         /\ tc_pc' = "pause_ramp"

\* __pause, lines 93-103
TC_pause ==
    IF ~tc_has_paused
    THEN \* line 94 reads an attribute that nothing has assigned: AttributeError
         /\ tc_pc' = "attribute_error"
         /\ UNCHANGED <<tc_has_paused, tc_paused, tc_nextPosition>>
    ELSE IF tc_paused
    THEN /\ tc_pc' = "read"
         /\ UNCHANGED <<tc_has_paused, tc_paused, tc_nextPosition>>
    ELSE /\ tc_paused' = TRUE
         /\ tc_has_paused' = TRUE
         /\ tc_nextPosition' = SERVO_UNPAUSE_POSITION
         /\ tc_pc' = "pause_ramp"

\* __readAndRespondToControlMessage taking every other payload for a pause
TCDispatch_UnknownPauses(signal) ==
    IF signal = UNPAUSE_SIGNAL THEN TC_unpause
    ELSE IF signal = PAUSE_SIGNAL THEN TC_pause
    ELSE TC_pause

\* __readAndRespondToControlMessage, lines 52-58
TCDispatch(signal) ==
    IF signal = UNPAUSE_SIGNAL THEN TC_unpause
    ELSE IF signal = PAUSE_SIGNAL THEN TC_pause
    ELSE /\ tc_pc' = "raised"
         /\ UNCHANGED <<tc_has_paused, tc_paused, tc_nextPosition>>

\* __init__, line 32: self.__unpause(); when it returns, run() starts
TCConstruct ==
    /\ "TickController" \in running
    /\ tc_pc = "init"
    /\ TC_unpause
    /\ UNCHANGED <<tc_i, tc_servo, tc_magnet, tc_log, tc_last, tc_recv>>
    /\ UNCHANGED <<wt_vars, flt, running, chan, sc_vars, wc_vars, m_vars>>

\* run() and __readAndRespondToControlMessage(timeout_s = None): block until a
\* message is there, read it, respond to it
TCRead ==
    /\ "TickController" \in running
    /\ tc_pc = "read"
    /\ is_ready_to_read(chan)
    /\ chan' = after_recv_msg(chan)
    /\ tc_last' = [signal |-> recv_msg(chan), prev |-> tc_last.signal,
                   was_paused |-> tc_paused, servo |-> tc_servo,
                   magnet |-> tc_magnet]
    /\ tc_recv' = IF "ScaredyCat" \in running
                  THEN Append(tc_recv, recv_msg(chan)) ELSE tc_recv
    /\ tc_log' = <<>>
    /\ TCDispatch(recv_msg(chan))
    /\ UNCHANGED <<tc_i, tc_servo, tc_magnet>>
    /\ UNCHANGED <<wt_vars, flt, running, sc_vars, wc_vars, m_vars>>

\* __unpause, lines 71-74: one pass of the while loop
TCUnpauseRampStep ==
    /\ "TickController" \in running
    /\ tc_pc = "unpause_ramp"
    /\ tc_nextPosition > SERVO_UNPAUSE_POSITION
    /\ tc_servo' = tc_nextPosition
    /\ tc_log' = Append(tc_log, ServoOut(tc_nextPosition))
    /\ tc_nextPosition' = tc_nextPosition - RAMP_STEP
    /\ UNCHANGED <<tc_pc, tc_has_paused, tc_recv, tc_paused, tc_i, tc_magnet, tc_last>>
    /\ UNCHANGED <<wt_vars, flt, running, chan, sc_vars, wc_vars, m_vars>>

\* TCUnpauseRampDone entering the for loop one pulse short
TCUnpauseRampDone_SkipsPulse ==
    /\ "TickController" \in running
    /\ tc_pc = "unpause_ramp"
    /\ ~(tc_nextPosition > SERVO_UNPAUSE_POSITION)
    /\ tc_i' = 1
    /\ tc_pc' = "pulse"
    /\ UNCHANGED <<tc_has_paused, tc_recv, tc_paused, tc_nextPosition, tc_servo, tc_magnet, tc_log, tc_last>>
    /\ UNCHANGED <<wt_vars, flt, running, chan, sc_vars, wc_vars, m_vars>>

\* __unpause, line 71 false: on to the for loop of line 77
TCUnpauseRampDone ==
    /\ "TickController" \in running
    /\ tc_pc = "unpause_ramp"
    /\ ~(tc_nextPosition > SERVO_UNPAUSE_POSITION)
    /\ tc_i' = 0
    /\ tc_pc' = "pulse"
    /\ UNCHANGED <<tc_has_paused, tc_recv, tc_paused, tc_nextPosition, tc_servo, tc_magnet, tc_log, tc_last>>
    /\ UNCHANGED <<wt_vars, flt, running, chan, sc_vars, wc_vars, m_vars>>

\* __unpause, lines 78-80: turn magnet on
TCPulseOn ==
    /\ "TickController" \in running
    /\ tc_pc = "pulse"
    /\ tc_i < NUM_PULSES
    /\ tc_magnet' = TRUE
    /\ tc_log' = Append(tc_log, MagnetOut(TRUE))
    /\ tc_pc' = "pulse_off"
    /\ UNCHANGED <<tc_has_paused, tc_recv, tc_paused, tc_nextPosition, tc_i, tc_servo, tc_last>>
    /\ UNCHANGED <<wt_vars, flt, running, chan, sc_vars, wc_vars, m_vars>>

\* __unpause, lines 86-88: turn magnet off, next i
TCPulseOff ==
    /\ "TickController" \in running
    /\ tc_pc = "pulse_off"
    /\ tc_magnet' = FALSE
    /\ tc_log' = Append(tc_log, MagnetOut(FALSE))
    /\ tc_i' = tc_i + 1
    /\ tc_pc' = "pulse"
    /\ UNCHANGED <<tc_has_paused, tc_recv, tc_paused, tc_nextPosition, tc_servo, tc_last>>
    /\ UNCHANGED <<wt_vars, flt, running, chan, sc_vars, wc_vars, m_vars>>

\* __unpause: range(5) is exhausted, the handler returns to run()
TCPulseDone ==
    /\ "TickController" \in running
    /\ tc_pc = "pulse"
    /\ ~(tc_i < NUM_PULSES)
    /\ tc_pc' = "read"
    /\ UNCHANGED <<tc_has_paused, tc_recv, tc_paused, tc_nextPosition, tc_i, tc_servo, tc_magnet, tc_log, tc_last>>
    /\ UNCHANGED <<wt_vars, flt, running, chan, sc_vars, wc_vars, m_vars>>

\* __pause, lines 104-107: one pass of the while loop
TCPauseRampStep ==
    /\ "TickController" \in running
    /\ tc_pc = "pause_ramp"
    /\ tc_nextPosition < SERVO_PAUSE_POSITION
    /\ tc_servo' = tc_nextPosition
    /\ tc_log' = Append(tc_log, ServoOut(tc_nextPosition))
    /\ tc_nextPosition' = tc_nextPosition + RAMP_STEP
    /\ UNCHANGED <<tc_pc, tc_has_paused, tc_recv, tc_paused, tc_i, tc_magnet, tc_last>>
    /\ UNCHANGED <<wt_vars, flt, running, chan, sc_vars, wc_vars, m_vars>>

\* __pause, line 104 false: the handler returns to run()
TCPauseRampDone ==
    /\ "TickController" \in running
    /\ tc_pc = "pause_ramp"
    /\ ~(tc_nextPosition < SERVO_PAUSE_POSITION)
    /\ tc_pc' = "read"
    /\ UNCHANGED <<tc_has_paused, tc_recv, tc_paused, tc_nextPosition, tc_i, tc_servo, tc_magnet, tc_log, tc_last>>
    /\ UNCHANGED <<wt_vars, flt, running, chan, sc_vars, wc_vars, m_vars>>

\* the steps of run()
TCRunNext ==
    \/ TCRead
    \/ TCUnpauseRampStep
    \/ TCUnpauseRampDone
    \/ TCPulseOn
    \/ TCPulseOff
    \/ TCPulseDone
    \/ TCPauseRampStep
    \/ TCPauseRampDone

TCNext ==
    \/ TCConstruct
    \/ TCRunNext

(***************************************************************************)
(* watchcat TickController. The class tests self.RUN_SIGNAL and            *)
(* self.PAUSE_SIGNAL (lines 46, 56, 58); the names are Motor's (motor.py   *)
(* lines 38-39), the other server of the watchcat package.                 *)
(***************************************************************************)
WT_SERVO_PAUSE_POSITION == 1000
WT_SERVO_UNPAUSE_POSITION == 500
\* range(5) of __unpause
WT_NUM_PULSES == 5

\* a call of __unpause at the head of its for loop (line 71)
WTFrame == [i |-> 0, at |-> "magnet_on", cut |-> FALSE]

\* With "Construction" in running the controller starts inside __init__, at
\* line 22. Otherwise it starts in run()'s loop (line 42), the socket
\* accepted, in the state __init__ is written to leave (lines 24-26: servo at
\* the unpause position, magnet off, paused False).
WTInit ==
    /\ wt_pc = IF "Construction" \in running THEN "init" ELSE "read"
    /\ wt_stack = <<>>
    /\ wt_paused = FALSE
    /\ wt_servo = IF "Construction" \in running THEN 0 ELSE WT_SERVO_UNPAUSE_POSITION
    /\ wt_magnet = FALSE
    /\ wt_last = [signal |-> "", polled |-> FALSE]

\* __init__, line 22: self.__setupGPIO() names a method the class does not
\* define (line 87 defines __setupGpio): AttributeError
WTConstruct ==
    /\ "WatchcatTickController" \in running
    /\ wt_pc = "init"
    /\ wt_pc' = "attribute_error"
    /\ UNCHANGED <<wt_stack, wt_paused, wt_servo, wt_magnet, wt_last>>
    /\ UNCHANGED <<flt, running, chan, sc_vars, wc_vars, tc_vars, m_vars>>

\* the calls in progress with the innermost one moved to `at`
WTAt(at) == [wt_stack EXCEPT ![Len(wt_stack)].at = at]

\* the calls in progress once a poll of the innermost one has read a
\* message; the call resumes at `at` when the response returns
WTCut(at) ==
    [wt_stack EXCEPT ![Len(wt_stack)].at = at, ![Len(wt_stack)].cut = TRUE]

\* __unpause, lines 65-71, called with `stack` in progress
WT_unpause(stack) ==
    /\ wt_paused' = FALSE
    /\ wt_servo' = WT_SERVO_UNPAUSE_POSITION
    /\ wt_stack' = Append(stack, WTFrame)
    /\ wt_pc' = "unpause"

\* __pause, lines 81-85, called with `stack` in progress, and its return
WT_pause(stack) ==
    /\ wt_paused' = TRUE
    /\ wt_servo' = WT_SERVO_PAUSE_POSITION
    /\ wt_stack' = stack
    /\ wt_pc' = IF stack = <<>> THEN "read" ELSE "unpause"

\* __readAndRespondToControlMessage, lines 56-61
WTDispatch(signal, stack) ==
    IF signal = RUN_SIGNAL THEN WT_unpause(stack)
    ELSE IF signal = PAUSE_SIGNAL THEN WT_pause(stack)
    ELSE /\ wt_pc' = "raised"
         /\ UNCHANGED <<wt_paused, wt_servo, wt_stack>>

\* lines 47-49 when a message is there: receive it; `polled` tells a
\* bounded-timeout poll from run()'s blocking read
WTReceive(polled) ==
    /\ is_ready_to_read(chan)
    /\ recv_msg(chan) = RUN_SIGNAL => Len(wt_stack) < MaxDepth
    /\ chan' = after_recv_msg(chan)
    /\ wt_last' = [signal |-> recv_msg(chan), polled |-> polled]

\* the return of the innermost call of __unpause
WTReturn ==
    LET rest == SubSeq(wt_stack, 1, Len(wt_stack) - 1)
    IN  /\ wt_stack' = rest
        /\ wt_pc' = IF rest = <<>> THEN "read" ELSE "unpause"

\* run(), line 42: block until a message is there, read it, respond to it
WTRead ==
    /\ "WatchcatTickController" \in running
    /\ wt_pc = "read"
    /\ WTReceive(FALSE)
    /\ WTDispatch(recv_msg(chan), <<>>)
    /\ UNCHANGED wt_magnet
    /\ UNCHANGED <<flt, running, sc_vars, wc_vars, tc_vars, m_vars>>

\* __unpause, line 72: turn magnet on
WTMagnetOn ==
    /\ "WatchcatTickController" \in running
    /\ wt_pc = "unpause"
    /\ wt_stack[Len(wt_stack)].at = "magnet_on"
    /\ wt_magnet' = TRUE
    /\ wt_stack' = WTAt("poll_on")
    /\ UNCHANGED <<wt_pc, wt_paused, wt_servo, wt_last>>
    /\ UNCHANGED <<flt, running, chan, sc_vars, wc_vars, tc_vars, m_vars>>

\* WTPollOn going on to line 77 when the response returns
WTPollOn_NoBreak ==
    /\ "WatchcatTickController" \in running
    /\ wt_pc = "unpause"
    /\ wt_stack[Len(wt_stack)].at = "poll_on"
    /\ IF is_ready_to_read(chan)
       THEN /\ WTReceive(TRUE)
            /\ WTDispatch(recv_msg(chan), WTCut("magnet_off"))
       ELSE /\ wt_stack' = WTAt("magnet_off")
            /\ UNCHANGED <<chan, wt_last, wt_pc, wt_paused, wt_servo>>
    /\ UNCHANGED wt_magnet
    /\ UNCHANGED <<flt, running, sc_vars, wc_vars, tc_vars, m_vars>>

\* __unpause, line 74: the poll of the magnet-on phase. A message that is
\* there is read and responded to, and the call resumes at line 75; with no
\* message within the timeout the call goes on to line 77
WTPollOn ==
    /\ "WatchcatTickController" \in running
    /\ wt_pc = "unpause"
    /\ wt_stack[Len(wt_stack)].at = "poll_on"
    /\ IF is_ready_to_read(chan)
       THEN /\ WTReceive(TRUE)
            /\ WTDispatch(recv_msg(chan), WTCut("interrupted_on"))
       ELSE /\ wt_stack' = WTAt("magnet_off")
            /\ UNCHANGED <<chan, wt_last, wt_pc, wt_paused, wt_servo>>
    /\ UNCHANGED wt_magnet
    /\ UNCHANGED <<flt, running, sc_vars, wc_vars, tc_vars, m_vars>>

\* __unpause, lines 75-76: turn magnet off, break, return
WTInterruptedOn ==
    /\ "WatchcatTickController" \in running
    /\ wt_pc = "unpause"
    /\ wt_stack[Len(wt_stack)].at = "interrupted_on"
    /\ wt_magnet' = FALSE
    /\ WTReturn
    /\ UNCHANGED <<wt_paused, wt_servo, wt_last>>
    /\ UNCHANGED <<flt, running, chan, sc_vars, wc_vars, tc_vars, m_vars>>

\* __unpause, line 77: turn magnet off
WTMagnetOff ==
    /\ "WatchcatTickController" \in running
    /\ wt_pc = "unpause"
    /\ wt_stack[Len(wt_stack)].at = "magnet_off"
    /\ wt_magnet' = FALSE
    /\ wt_stack' = WTAt("poll_off")
    /\ UNCHANGED <<wt_pc, wt_paused, wt_servo, wt_last>>
    /\ UNCHANGED <<flt, running, chan, sc_vars, wc_vars, tc_vars, m_vars>>

\* __unpause, line 78: the poll of the magnet-off phase. A message that is
\* there is read and responded to, and the call resumes at line 79; with no
\* message within the timeout the for loop takes its next i, or is exhausted
\* and the call returns
WTPollOff ==
    /\ "WatchcatTickController" \in running
    /\ wt_pc = "unpause"
    /\ wt_stack[Len(wt_stack)].at = "poll_off"
    /\ LET i == wt_stack[Len(wt_stack)].i
       IN  IF is_ready_to_read(chan)
           THEN /\ WTReceive(TRUE)
                /\ WTDispatch(recv_msg(chan), WTCut("interrupted_off"))
                /\ UNCHANGED wt_magnet
           ELSE IF i + 1 < WT_NUM_PULSES
           THEN /\ wt_stack' = [WTAt("magnet_on") EXCEPT ![Len(wt_stack)].i = i + 1]
                /\ UNCHANGED <<chan, wt_last, wt_pc, wt_paused, wt_servo,
                               wt_magnet>>
           ELSE /\ WTReturn
                /\ UNCHANGED <<chan, wt_last, wt_paused, wt_servo, wt_magnet>>
    /\ UNCHANGED <<flt, running, sc_vars, wc_vars, tc_vars, m_vars>>

\* __unpause, line 79: break, return
WTInterruptedOff ==
    /\ "WatchcatTickController" \in running
    /\ wt_pc = "unpause"
    /\ wt_stack[Len(wt_stack)].at = "interrupted_off"
    /\ WTReturn
    /\ UNCHANGED <<wt_paused, wt_servo, wt_magnet, wt_last>>
    /\ UNCHANGED <<flt, running, chan, sc_vars, wc_vars, tc_vars, m_vars>>

WTNext ==
    \/ WTConstruct
    \/ WTRead
    \/ WTMagnetOn
    \/ WTPollOn
    \/ WTInterruptedOn
    \/ WTMagnetOff
    \/ WTPollOff
    \/ WTInterruptedOff

(***************************************************************************)
(* watchcat Motor.                                                         *)
(***************************************************************************)
DIRECTION_LEFT == FALSE
DIRECTION_RIGHT == TRUE
CENTER_POSITION == 0
LEFT_POSITION == -180
RIGHT_POSITION == 130
\* len(STEP_SEQUENCE), the modulus of __step
NUM_STEP_PATTERNS == 8

\* STEP_SEQUENCE[k] of the source is STEP_SEQUENCE[k + 1] here
STEP_SEQUENCE ==
    << <<1, 0, 0, 1>>,
       <<1, 0, 0, 0>>,
       <<1, 1, 0, 0>>,
       <<0, 1, 0, 0>>,
       <<0, 1, 1, 0>>,
       <<0, 0, 1, 0>>,
       <<0, 0, 1, 1>>,
       <<0, 0, 0, 1>> >>

\* Motor.__init__ (with __setupGPIO: all four pins LOW); run() then starts
\* with calibrate_position. signal is assigned when calibration is over.
MotorInit ==
    /\ m_pc = "calibrate"
    /\ m_i = 0
    /\ m_paused = FALSE
    /\ m_position = CENTER_POSITION
    /\ m_direction = DIRECTION_RIGHT
    /\ m_motor_step_counter = 0
    /\ m_signal = RUN_SIGNAL
    /\ m_pins = <<0, 0, 0, 0>>
    /\ m_last = [signal |-> RUN_SIGNAL, paused |-> FALSE,
                 position |-> CENTER_POSITION, direction |-> DIRECTION_RIGHT,
                 motor_step_counter |-> 0, pins |-> <<0, 0, 0, 0>>]
    /\ m_sweep = [started |-> FALSE, counter |-> 0, steps |-> 0, in_range |-> TRUE]

\* __step advancing the step counter by two patterns when it moves right
MotorStep_SkipsPattern(direction) ==
    /\ m_pins' = STEP_SEQUENCE[m_motor_step_counter + 1]
    /\ IF direction = DIRECTION_LEFT
       THEN /\ m_position' = m_position - 1
            /\ m_motor_step_counter' = (m_motor_step_counter - 1) % NUM_STEP_PATTERNS
       ELSE /\ m_position' = m_position + 1
            /\ m_motor_step_counter' = (m_motor_step_counter + 2) % NUM_STEP_PATTERNS

\* __step leaving the step counter alone when it moves left
MotorStep_LeftKeepsCounter(direction) ==
    /\ m_pins' = STEP_SEQUENCE[m_motor_step_counter + 1]
    /\ IF direction = DIRECTION_LEFT
       THEN /\ m_position' = m_position - 1
            /\ m_motor_step_counter' = m_motor_step_counter
       ELSE /\ m_position' = m_position + 1
            /\ m_motor_step_counter' = (m_motor_step_counter + 1) % NUM_STEP_PATTERNS

\* __step, lines 128-139, moving in `direction`
MotorStep(direction) ==
    /\ m_pins' = STEP_SEQUENCE[m_motor_step_counter + 1]
    /\ IF direction = DIRECTION_LEFT
       THEN /\ m_position' = m_position - 1
            /\ m_motor_step_counter' = (m_motor_step_counter - 1) % NUM_STEP_PATTERNS
       ELSE /\ m_position' = m_position + 1
            /\ m_motor_step_counter' = (m_motor_step_counter + 1) % NUM_STEP_PATTERNS

\* what each loop iteration records of the state it starts in
MotorSnapshot(signal) ==
    [signal |-> signal, paused |-> m_paused, position |-> m_position,
     direction |-> m_direction, motor_step_counter |-> m_motor_step_counter,
     pins |-> m_pins]

\* calibrate_position, lines 54-55: one pass of the for loop
MotorCalibrateStep ==
    /\ "Motor" \in running
    /\ m_pc = "calibrate"
    /\ m_i < RIGHT_POSITION * 4
    /\ m_i' = m_i + 1
    /\ MotorStep(m_direction)
    /\ UNCHANGED <<m_pc, m_paused, m_direction, m_signal, m_last, m_sweep>>
    /\ UNCHANGED <<wt_vars, flt, running, chan, sc_vars, wc_vars, tc_vars>>

\* calibrate_position, line 57, and run() up to line 99
MotorCalibrateDone ==
    /\ "Motor" \in running
    /\ m_pc = "calibrate"
    /\ ~(m_i < RIGHT_POSITION * 4)
    /\ m_position' = RIGHT_POSITION
    /\ m_signal' = RUN_SIGNAL
    /\ m_pc' = "loop"
    /\ UNCHANGED <<m_i, m_paused, m_direction, m_motor_step_counter, m_pins, m_last,
                   m_sweep>>
    /\ UNCHANGED <<wt_vars, flt, running, chan, sc_vars, wc_vars, tc_vars>>

\* MotorTurn without the branch of lines 106-109
MotorTurn_NoTurnAtRight ==
    IF m_position = LEFT_POSITION THEN DIRECTION_RIGHT
    ELSE m_direction

\* MotorTurn turning back to the left at CENTER_POSITION already
MotorTurn_TurnsAtCenter ==
    IF m_position = LEFT_POSITION THEN DIRECTION_RIGHT
    ELSE IF m_position = RIGHT_POSITION
            \/ (m_position = CENTER_POSITION /\ m_direction = DIRECTION_RIGHT)
    THEN DIRECTION_LEFT
    ELSE m_direction

\* lines 101-109: the direction after the test of the two extremes
MotorTurn ==
    IF m_position = LEFT_POSITION THEN DIRECTION_RIGHT
    ELSE IF m_position = RIGHT_POSITION THEN DIRECTION_LEFT
    ELSE m_direction

\* the payloads the dispatch of lines 118-123 has a branch for (the watchcat
\* TickController, lines 56-61 of its file, tests the same two names)
MotorRecognizes(signal) == signal = RUN_SIGNAL \/ signal = PAUSE_SIGNAL

\* MotorDispatch calling __step whatever self.__paused is
MotorDispatch_StepsWhilePaused(signal, direction) ==
    IF signal = RUN_SIGNAL
    THEN /\ m_paused' = FALSE
         /\ MotorStep(direction)
         /\ UNCHANGED m_pc
    ELSE IF signal = PAUSE_SIGNAL
    THEN /\ m_paused' = TRUE
         /\ MotorStep(direction)
         /\ UNCHANGED m_pc
    ELSE /\ m_pc' = "raised"
         /\ UNCHANGED <<m_paused, m_position, m_motor_step_counter, m_pins>>

\* lines 118-126, on `signal`, moving in `direction` when it steps
MotorDispatch(signal, direction) ==
    IF signal = RUN_SIGNAL
    THEN /\ m_paused' = FALSE
         /\ MotorStep(direction)
         /\ UNCHANGED m_pc
    ELSE IF signal = PAUSE_SIGNAL
    THEN /\ m_paused' = TRUE
         /\ UNCHANGED <<m_pc, m_position, m_motor_step_counter, m_pins>>
    ELSE /\ m_pc' = "raised"
         /\ UNCHANGED <<m_paused, m_position, m_motor_step_counter, m_pins>>

\* m_sweep after a loop iteration on `signal`: it restarts when the iteration
\* starts at LEFT_POSITION, and counts the iteration's call of __step
MotorSweep(signal) ==
    LET base == IF m_position = LEFT_POSITION
                THEN [started |-> TRUE, counter |-> m_motor_step_counter,
                      steps |-> 0, in_range |-> TRUE]
                ELSE m_sweep
    IN  IF signal = RUN_SIGNAL
        THEN [base EXCEPT !.steps = @ + 1,
                          !.in_range = @ /\ m_position' >= LEFT_POSITION
                                         /\ m_position' <= RIGHT_POSITION]
        ELSE base

\* one iteration of run()'s loop, lines 100-126
MotorLoop ==
    /\ "Motor" \in running
    /\ m_pc = "loop"
    /\ LET ready  == is_ready_to_read(chan)
           signal == IF ready THEN recv_msg(chan) ELSE m_signal
       IN  /\ m_direction' = MotorTurn
           /\ chan' = IF ready THEN after_recv_msg(chan) ELSE chan
           /\ m_signal' = signal
           /\ m_last' = MotorSnapshot(signal)
           /\ MotorDispatch(signal, MotorTurn)
           /\ m_sweep' = MotorSweep(signal)
    /\ UNCHANGED m_i
    /\ UNCHANGED <<wt_vars, flt, running, sc_vars, wc_vars, tc_vars>>

MotorNext ==
    \/ MotorCalibrateStep
    \/ MotorCalibrateDone
    \/ MotorLoop

(***************************************************************************)
(* Specification: one of the programs, or an actuator with a client, runs. *)
(***************************************************************************)
Runs ==
    { { "ScaredyCat" },
      { "WatchCat" },
      { "Client", "TickController" },
      { "Client", "Motor" },
      { "Construction", "TickController" },
      { "Client", "WatchcatTickController" },
      { "Construction", "WatchcatTickController" } }

Init ==
    /\ running \in Runs
    /\ chan = <<>>
    /\ SCInit
    /\ WCInit
    /\ TCInit
    /\ WTInit
    /\ MotorInit
    /\ flt = [stage |-> "idle"]

Next ==
    \/ SCNext
    \/ WCNext
    \/ ClientNext
    \/ TCNext
    \/ WTNext
    \/ MotorNext

Spec == Init /\ [][Next]_vars

(***************************************************************************)
(* The scaredycat deployment: ScaredyCat (the client of the socket) and    *)
(* the TickController (its server) joined by chan. The controller is a     *)
(* process of its own: whenever it can take its next step (a message is    *)
(* there for the blocking read, a sleep of a ramp or of a pulse is over)   *)
(* it eventually does. Nothing is assumed of the detector, which may stop  *)
(* at any frame.                                                           *)
(***************************************************************************)
JoinedInit ==
    /\ running = { "ScaredyCat", "TickController" }
    /\ chan = <<>>
    /\ SCInit
    /\ WCInit
    /\ TCInit
    /\ WTInit
    /\ MotorInit
    /\ flt = [stage |-> "idle"]

JoinedNext ==
    \/ SCNext
    \/ TCRunNext

JoinedSpec == JoinedInit /\ [][JoinedNext]_vars /\ WF_vars(TCRunNext)

(***************************************************************************)
(* The Motor as a server with a client. The Motor is a process of its own: *)
(* its loop never blocks (is_ready_to_read returns at once, the sleeps     *)
(* end), so it always eventually takes its next step. Nothing is assumed   *)
(* of the client.                                                          *)
(***************************************************************************)
MotorLiveInit ==
    /\ running = { "Client", "Motor" }
    /\ chan = <<>>
    /\ SCInit
    /\ WCInit
    /\ TCInit
    /\ WTInit
    /\ MotorInit
    /\ flt = [stage |-> "idle"]

MotorLiveNext ==
    \/ ClientNext
    \/ MotorNext

MotorLiveSpec == MotorLiveInit /\ [][MotorLiveNext]_vars /\ WF_vars(MotorNext)

(***************************************************************************)
(* The filters of ScaredyCat alone, on every input of FilterInit: no       *)
(* process runs.                                                           *)
(***************************************************************************)
FilterSpecInit ==
    /\ FilterInit
    /\ running = {}
    /\ chan = <<>>
    /\ SCInit
    /\ sc_crop_x0 = flt.crop_x0
    /\ WCInit
    /\ TCInit
    /\ WTInit
    /\ MotorInit

FilterNext == FilterApply

FilterSpec == FilterSpecInit /\ [][FilterNext]_vars

(***************************************************************************)
(* Helpers of the properties below.                                        *)
(***************************************************************************)
Last(s) == s[Len(s)]

\* s alternates PAUSE, UNPAUSE, PAUSE, ... from its first element
Alternates(s) ==
    \A k \in 1..Len(s) :
        s[k] = IF k % 2 = 1 THEN PAUSE_SIGNAL ELSE UNPAUSE_SIGNAL

\* payload occurs in the sequence s
Sent(payload, s) == \E k \in 1..Len(s) : s[k] = payload

(***************************************************************************)
(* C1: in both detector loops (ScaredyCat.run, WatchCat.run),              *)
(* num_consecutive_face_frames and num_consecutive_empty_frames are never  *)
(* both non-zero at a frame boundary.                                      *)
(***************************************************************************)
C1_NeverBothNonZero ==
    /\ ~(sc_num_consecutive_face_frames > 0 /\ sc_num_consecutive_empty_frames > 0)
    /\ ~(wc_num_consecutive_face_frames > 0 /\ wc_num_consecutive_empty_frames > 0)

(***************************************************************************)
(* C2: the messages ScaredyCat.run sends alternate PAUSE, UNPAUSE, PAUSE,  *)
(* ... starting with PAUSE (so no two consecutive ones are equal), and a   *)
(* frame whose filtered set is non-empty, processed while is_paused is     *)
(* already True, sends nothing.                                            *)
(***************************************************************************)
C2_EdgeTriggered ==
    /\ Alternates(sc_sent)
    /\ (sc_last.was_paused /\ Len(sc_last.faces) > 0) => sc_last.sent = <<>>

\* C2, witness: PAUSE, UNPAUSE, PAUSE were sent and then one more non-empty
\* frame was processed while paused
C2_Witness ==
    /\ Len(sc_sent) >= 3
    /\ sc_last.was_paused
    /\ Len(sc_last.faces) > 0

(***************************************************************************)
(* C3: in ScaredyCat.run, for a frame t processed while paused: when t is  *)
(* the 1st to 4th consecutive empty-filtered frame no UNPAUSE is sent and  *)
(* the confirmed set stays non-empty; an UNPAUSE is sent during frame t    *)
(* iff the detector was paused before t and t is the fifth consecutive     *)
(* empty-filtered frame, and then exactly one UNPAUSE is sent and the      *)
(* confirmed set is cleared. (sc_empty_run restarts at every non-empty     *)
(* frame.)                                                                 *)
(***************************************************************************)
C3_UnpauseOnFifthEmptyFrame ==
    /\ (sc_last.was_paused /\ sc_empty_run \in 1..(SC_NUM_CONSECUTIVE_EMPTY_FRAMES_TO_CONFIRM_EMPTY - 1))
          => /\ sc_last.sent = <<>>
             /\ sc_confirmed_face_locations # <<>>
             /\ sc_is_paused
    /\ Sent(UNPAUSE_SIGNAL, sc_last.sent)
          <=> (sc_last.was_paused /\ sc_empty_run = SC_NUM_CONSECUTIVE_EMPTY_FRAMES_TO_CONFIRM_EMPTY)
    /\ Sent(UNPAUSE_SIGNAL, sc_last.sent)
          => /\ sc_last.sent = << UNPAUSE_SIGNAL >>
             /\ sc_confirmed_face_locations = <<>>

\* C3, witness: the fifth consecutive empty frame of a paused detector whose
\* count of empty frames had been restarted by a face before
C3_Witness ==
    /\ sc_last.sent = << UNPAUSE_SIGNAL >>
    /\ sc_empty_run = SC_NUM_CONSECUTIVE_EMPTY_FRAMES_TO_CONFIRM_EMPTY
    /\ sc_frames > SC_NUM_CONSECUTIVE_EMPTY_FRAMES_TO_CONFIRM_EMPTY + 2

(***************************************************************************)
(* C4: in ScaredyCat.run, a frame whose filtered set is non-empty,         *)
(* processed while is_paused is False, sends exactly one PAUSE, stores the *)
(* filtered set as the confirmed set, clears the unconfirmed set and sets  *)
(* is_paused True.                                                         *)
(***************************************************************************)
C4_SingleFrameConfirms ==
    (~sc_last.was_paused /\ Len(sc_last.faces) > 0)
        => /\ sc_last.sent = << PAUSE_SIGNAL >>
           /\ sc_confirmed_face_locations = sc_last.faces
           /\ sc_unconfirmed_face_locations = <<>>
           /\ sc_is_paused

\* C4, witness: such a frame, after an earlier PAUSE and UNPAUSE
C4_Witness ==
    /\ ~sc_last.was_paused
    /\ Len(sc_last.faces) > 0
    /\ Len(sc_sent) = 3

(***************************************************************************)
(* C5 (as stated): WatchCat.run sends a PAUSE while processing frame t     *)
(* only if frame t and the two frames immediately before it were all       *)
(* non-empty (wc_face_run counts the non-empty frames since the last empty *)
(* one).                                                                   *)
(***************************************************************************)
C5_PauseNeedsConsecutiveFaceFrames ==
    Sent(PAUSE_SIGNAL, wc_last.sent)
        => wc_face_run >= WC_NUM_CONSECUTIVE_FACE_FRAMES_TO_CONFIRM_FACE

(***************************************************************************)
(* C6: at every frame boundary of ScaredyCat.run these coincide: is_paused *)
(* is True; the confirmed face set is non-empty;                           *)
(* num_consecutive_face_frames >= N_confirm; the last message sent is a    *)
(* PAUSE (the detector is between a PAUSE and the next UNPAUSE).           *)
(***************************************************************************)
C6_ConfirmedCoincide ==
    /\ sc_is_paused <=> (sc_confirmed_face_locations # <<>>)
    /\ sc_is_paused <=> (sc_num_consecutive_face_frames
                            >= SC_NUM_CONSECUTIVE_FACE_FRAMES_TO_CONFIRM_FACE)
    /\ sc_is_paused <=> (sc_sent # <<>> /\ Last(sc_sent) = PAUSE_SIGNAL)

\* C6, witness: confirmed, four empty frames into the hysteresis
C6_Witness ==
    /\ sc_is_paused
    /\ sc_num_consecutive_empty_frames = SC_NUM_CONSECUTIVE_EMPTY_FRAMES_TO_CONFIRM_EMPTY - 1
    /\ Len(sc_confirmed_face_locations) > 0

(***************************************************************************)
(* Helpers of the properties of the TickController.                        *)
(***************************************************************************)
IsServoOut(e) == e[1] = "servo"
IsMagnetOut(e) == e[1] = "magnet"

\* log is a ramp down from SERVO_PAUSE_POSITION in steps of RAMP_STEP that
\* ends within one step of SERVO_UNPAUSE_POSITION, then NUM_PULSES times
\* (magnet on, magnet off), and nothing else
IsUnpauseSequence(log) ==
    \E k \in 1..Len(log) :
        /\ \A j \in 1..k : log[j] = ServoOut(SERVO_PAUSE_POSITION - RAMP_STEP * (j - 1))
        /\ log[k][2] - RAMP_STEP <= SERVO_UNPAUSE_POSITION
        /\ Len(log) = k + 2 * NUM_PULSES
        /\ \A j \in 1..(2 * NUM_PULSES) : log[k + j] = MagnetOut(j % 2 = 1)

\* the ramp of log is over: its last servo command is within one step of
\* SERVO_UNPAUSE_POSITION
RampOver(log) ==
    \E k \in 1..Len(log) :
        /\ IsServoOut(log[k])
        /\ log[k][2] - RAMP_STEP <= SERVO_UNPAUSE_POSITION

\* the running controller was handed an UNPAUSE while paused
HandlingUnpause == tc_last.signal = UNPAUSE_SIGNAL /\ tc_last.was_paused
\* the running controller was handed a PAUSE while not paused
HandlingPause == tc_last.signal = PAUSE_SIGNAL /\ ~tc_last.was_paused

(***************************************************************************)
(* C7: in the scaredycat TickController, a PAUSE handled while paused is   *)
(* True, or an UNPAUSE handled while paused is False, issues no servo      *)
(* command and no magnet output and leaves paused unchanged, and the       *)
(* handler returns at once; in particular the second of two PAUSE messages *)
(* in a row issues nothing.                                                *)
(***************************************************************************)
C7_RepeatedMessageIsNoOp ==
    /\ (tc_last.signal = PAUSE_SIGNAL /\ tc_last.was_paused)
          => /\ tc_log = <<>>
             /\ tc_paused
             /\ tc_servo = tc_last.servo
             /\ tc_magnet = tc_last.magnet
             /\ tc_pc = "read"
    /\ (tc_last.signal = UNPAUSE_SIGNAL /\ ~tc_last.was_paused)
          => /\ tc_log = <<>>
             /\ ~tc_paused
             /\ tc_servo = tc_last.servo
             /\ tc_magnet = tc_last.magnet
             /\ tc_pc = "read"
    /\ (tc_last.signal = PAUSE_SIGNAL /\ tc_last.prev = PAUSE_SIGNAL)
          => tc_log = <<>>

\* C7, witness: the second of two PAUSE messages in a row has been handled
C7_Witness ==
    /\ tc_last.signal = PAUSE_SIGNAL
    /\ tc_last.prev = PAUSE_SIGNAL
    /\ tc_last.was_paused
    /\ tc_servo > 0

(***************************************************************************)
(* C8: in the scaredycat TickController, an UNPAUSE handled while paused   *)
(* is True issues, in this order, one servo ramp from the paused position  *)
(* down toward the running position and then exactly 5 magnet cycles, each *)
(* one "on" followed by one "off"; no magnet output precedes the end of    *)
(* the ramp, no servo command follows a magnet output, and the magnet is   *)
(* off when the handler returns.                                           *)
(***************************************************************************)
C8_UnpauseRampThenPulses ==
    HandlingUnpause =>
        /\ tc_pc = "read" => (IsUnpauseSequence(tc_log) /\ tc_magnet = FALSE)
        /\ \A a \in 1..Len(tc_log) : \A b \in a..Len(tc_log) :
               IsMagnetOut(tc_log[a]) => IsMagnetOut(tc_log[b])
        /\ (\E a \in 1..Len(tc_log) : IsMagnetOut(tc_log[a])) => RampOver(tc_log)

\* C8, witness: the handler of such an UNPAUSE has returned
C8_Witness ==
    /\ HandlingUnpause
    /\ tc_pc = "read"
    /\ Len(tc_log) > 2 * NUM_PULSES

(***************************************************************************)
(* C9 (as stated): in the scaredycat TickController, when a pause          *)
(* transition completes the last servo pulse width commanded is            *)
(* SERVO_PAUSE_POSITION, and when an unpause ramp completes it is          *)
(* SERVO_UNPAUSE_POSITION.                                                 *)
(***************************************************************************)
C9_RampEndsAtTarget ==
    /\ (HandlingPause /\ tc_pc = "read") => tc_servo = SERVO_PAUSE_POSITION
    /\ (HandlingUnpause /\ tc_pc \in { "pulse", "pulse_off", "read" })
          => tc_servo = SERVO_UNPAUSE_POSITION

(***************************************************************************)
(* C10: when the scaredycat TickController or the watchcat Motor reads a   *)
(* payload that is neither the pause name nor its resume name, it raises   *)
(* and takes no further step, and that payload changes neither the paused  *)
(* flag nor any output: no servo command, no magnet output, no stepper     *)
(* step (position, step counter and pin levels are as before).             *)
(***************************************************************************)
C10_UnknownPayloadIsFatal ==
    /\ (tc_last.signal \notin { "", PAUSE_SIGNAL, UNPAUSE_SIGNAL })
          <=> tc_pc = "raised"
    /\ tc_pc = "raised"
          => /\ tc_paused = tc_last.was_paused
             /\ tc_log = <<>>
             /\ tc_servo = tc_last.servo
             /\ tc_magnet = tc_last.magnet
             /\ ~ENABLED TCNext
    /\ (m_last.signal \notin { PAUSE_SIGNAL, RUN_SIGNAL })
          <=> m_pc = "raised"
    /\ m_pc = "raised"
          => /\ m_paused = m_last.paused
             /\ m_position = m_last.position
             /\ m_motor_step_counter = m_last.motor_step_counter
             /\ m_pins = m_last.pins
             /\ ~ENABLED MotorNext

\* C10, witness: the controller has raised on an unknown payload read while
\* paused, after a ramp
C10_Witness ==
    /\ tc_pc = "raised"
    /\ tc_last.was_paused
    /\ tc_servo > 0

(***************************************************************************)
(* C11: with ScaredyCat and the TickController joined by the one FIFO      *)
(* channel, the messages are handled in the order sent, none lost,         *)
(* duplicated or reordered (what the detector has sent is what the         *)
(* controller has received followed by what is still in the channel);      *)
(* whenever the channel is empty and the controller is blocked in run()'s  *)
(* read, its paused flag equals the detector's is_paused; and from every   *)
(* state the controller reaches that agreement, unless the detector sends  *)
(* again first (it sends exactly when its is_paused changes).              *)
(***************************************************************************)
C11_Agreed ==
    /\ chan = <<>>
    /\ tc_pc = "read"
    /\ tc_paused = sc_is_paused

C11_InOrder == sc_sent = tc_recv \o chan

C11_AgreeWhenIdle == (chan = <<>> /\ tc_pc = "read") => tc_paused = sc_is_paused

\* C11: in order, in agreement when idle, and agreement is reached
C11_FifoAgreement ==
    /\ [](C11_InOrder /\ C11_AgreeWhenIdle)
    /\ \A b \in BOOLEAN :
          (sc_is_paused = b) ~> (sc_is_paused # b \/ C11_Agreed)

\* C11, witness: PAUSE, UNPAUSE, PAUSE were sent, all three have been handled
\* and the controller is back in its read
C11_Witness ==
    /\ "ScaredyCat" \in running
    /\ Len(tc_recv) = 3
    /\ C11_Agreed

(***************************************************************************)
(* C12 (as stated): in the unpause pulse routine of the scaredycat         *)
(* TickController the channel is polled at each pulse phase, after each    *)
(* magnet-on and after each magnet-off: when the controller leaves a pulse *)
(* phase (the magnet on; the magnet off again after a pulse) with a        *)
(* message queued, the step it takes reads that message, so no later       *)
(* magnet-on is issued with that message still unread.                     *)
(***************************************************************************)
C12_PolledAtEachPulsePhase ==
    [][ ( /\ chan # <<>>
          /\ \/ tc_pc = "pulse_off"
             \/ tc_pc = "pulse" /\ tc_i >= 1
          /\ tc_pc' # tc_pc )
        => chan' = Tail(chan) ]_vars

(***************************************************************************)
(* C13 (as stated): in the watchcat deployment every message WatchCat.run  *)
(* has sent (TickController.PAUSE_SIGNAL, TickController.UNPAUSE_SIGNAL)   *)
(* is a name the actuator side (Motor, the watchcat TickController)        *)
(* recognizes, so none of them reaches the "unknown signal" branch.        *)
(***************************************************************************)
C13_DetectorNamesRecognized ==
    \A k \in 1..Len(wc_sent) : MotorRecognizes(wc_sent[k])

(***************************************************************************)
(* C14: in Motor, from position LEFT_POSITION, after k calls of __step     *)
(* (k up to RIGHT_POSITION - LEFT_POSITION = 310, pauses in between or     *)
(* not) the position is LEFT_POSITION + k and the step counter is (the     *)
(* counter at LEFT_POSITION + k) mod 8, hence consistent with (initial     *)
(* index + steps) mod 4; no position reached left the range; after exactly *)
(* 310 steps the position is RIGHT_POSITION.                               *)
(***************************************************************************)
FULL_SWEEP == RIGHT_POSITION - LEFT_POSITION

\* C14: the k-th step from LEFT_POSITION, k up to FULL_SWEEP
C14_FullSweep ==
    (m_sweep.started /\ m_sweep.steps <= FULL_SWEEP) =>
        /\ m_position = LEFT_POSITION + m_sweep.steps
        /\ m_motor_step_counter = (m_sweep.counter + m_sweep.steps) % NUM_STEP_PATTERNS
        /\ m_motor_step_counter % 4 = (m_sweep.counter + m_sweep.steps) % 4
        /\ m_sweep.in_range
        /\ m_sweep.steps = FULL_SWEEP => m_position = RIGHT_POSITION

\* C14, witness: the 310th step since LEFT_POSITION has been taken, the
\* motor is paused
C14_Witness ==
    /\ m_sweep.started
    /\ m_sweep.steps = FULL_SWEEP
    /\ m_paused

(***************************************************************************)
(* C15: in Motor.run, a loop iteration that starts with paused True and    *)
(* ends with it True (no RUN was read) changes none of position, step      *)
(* counter and direction and writes no pattern to the pins; the iteration  *)
(* that then reads RUN takes one step from that same position in that same *)
(* direction.                                                              *)
(***************************************************************************)
C15_PauseFreezes ==
    (m_pc = "loop" /\ m_last.paused) =>
        /\ m_direction = m_last.direction
        /\ m_last.signal = PAUSE_SIGNAL =>
              /\ m_paused
              /\ m_position = m_last.position
              /\ m_motor_step_counter = m_last.motor_step_counter
              /\ m_pins = m_last.pins
        /\ m_last.signal = RUN_SIGNAL =>
              /\ ~m_paused
              /\ m_position = m_last.position
                    + (IF m_last.direction = DIRECTION_RIGHT THEN 1 ELSE -1)
              /\ m_motor_step_counter =
                    (m_last.motor_step_counter
                       + (IF m_last.direction = DIRECTION_RIGHT THEN 1 ELSE -1))
                    % NUM_STEP_PATTERNS
              /\ m_pins = STEP_SEQUENCE[m_last.motor_step_counter + 1]

\* C15, witness: paused at LEFT_POSITION after a sweep, RUN was read and the
\* step went right
C15_Witness ==
    /\ m_pc = "loop"
    /\ m_last.paused
    /\ m_last.signal = RUN_SIGNAL
    /\ m_last.position = LEFT_POSITION
    /\ m_position = LEFT_POSITION + 1

(***************************************************************************)
(* C16: at every iteration of Motor.run's loop, once calibrate_position    *)
(* has returned, LEFT_POSITION <= position <= RIGHT_POSITION, whatever RUN *)
(* and PAUSE messages arrive and whenever they do; a step taken at         *)
(* LEFT_POSITION goes right and a step taken at RIGHT_POSITION goes left.  *)
(***************************************************************************)
C16_PositionInRange ==
    (m_pc \in { "loop", "raised" }) =>
        /\ LEFT_POSITION <= m_position
        /\ m_position <= RIGHT_POSITION
        /\ (m_last.position = LEFT_POSITION /\ m_position # m_last.position)
              => (m_position = LEFT_POSITION + 1 /\ m_direction = DIRECTION_RIGHT)
        /\ (m_last.position = RIGHT_POSITION /\ m_position # m_last.position)
              => (m_position = RIGHT_POSITION - 1 /\ m_direction = DIRECTION_LEFT)

\* C16, witness: back at RIGHT_POSITION after a sweep from LEFT_POSITION,
\* the next step has gone left
C16_Witness ==
    /\ m_pc = "loop"
    /\ m_sweep.started
    /\ m_last.position = RIGHT_POSITION
    /\ m_position = RIGHT_POSITION - 1

(***************************************************************************)
(* Helpers of the properties of the filters: the predicates of one         *)
(* threshold set, the initial one when `initial`, else the repeat one.     *)
(***************************************************************************)
ScoreOk(f, initial) ==
    f.score >= (IF initial THEN INIT_MIN_SCORE ELSE REPEAT_MIN_SCORE)

DimensionsOk(f, initial) ==
    /\ f.w >= (IF initial THEN INIT_MIN_W ELSE REPEAT_MIN_W)
    /\ f.h >= (IF initial THEN INIT_MIN_H ELSE REPEAT_MIN_H)

\* the band [(1 - range) / 2, (1 - range) / 2 + range], in hundredths
GazeOk(f, initial) ==
    LET range == IF initial THEN INIT_GAZE_RANGE ELSE REPEAT_GAZE_RANGE
    IN  /\ 2 * GazePct(f) >= 100 - range
        /\ 2 * GazePct(f) <= 100 - range + 2 * range

\* f occurs in the sequence s
InSeq(f, s) == \E k \in 1..Len(s) : s[k] = f

(***************************************************************************)
(* C17: for every list of candidates and either confirmation state, what   *)
(* lines 191-196 of ScaredyCat.run hand to the confirmation logic is       *)
(* exactly the candidates (in order) that satisfy all three predicates of  *)
(* one threshold set, the initial one iff the confirmed set is empty, the  *)
(* repeat one otherwise; it is what the three filters give without the     *)
(* tests for an empty intermediate list.                                   *)
(***************************************************************************)
C17_FiltersCompose ==
    flt.stage = "filtered" =>
        LET initial == Len(flt.confirmed) = 0
            all(f) == ScoreOk(f, initial) /\ DimensionsOk(f, initial)
                         /\ GazeOk(f, initial)
        IN  /\ flt.out = SelectSeq(flt.faces, all)
            /\ flt.out =
                  filterFacesByGaze(
                      filterFacesByDimensions(
                          filterFacesByScore(flt.faces, flt.confirmed),
                          flt.confirmed, flt.crop_x0),
                      flt.confirmed)

\* C17, witness: with a face confirmed, of two candidates the first fails
\* only the initial score threshold and is kept, the second fails the
\* repeat gaze band and is dropped
C17_Witness ==
    /\ flt.stage = "filtered"
    /\ Len(flt.confirmed) > 0
    /\ Len(flt.faces) = 2
    /\ flt.faces[1].score < INIT_MIN_SCORE
    /\ flt.out = << flt.faces[1] >>
    /\ InSeq(flt.faces[2], flt.by_dimensions)
    /\ ~InSeq(flt.faces[2], flt.by_gaze)

(***************************************************************************)
(* C18: __filterFacesByGaze, the gaze percentage counted in hundredths,    *)
(* keeps a candidate iff its gaze is within [0.40, 0.60] when no face is   *)
(* confirmed and within [0.36, 0.64] when one is, both bounds included: a  *)
(* candidate exactly on a bound is kept, one 0.01 outside is rejected.     *)
(***************************************************************************)
C18_GazeBand ==
    flt.stage = "filtered" =>
        LET lo == IF Len(flt.confirmed) = 0 THEN 40 ELSE 36
            hi == IF Len(flt.confirmed) = 0 THEN 60 ELSE 64
            inside(f) == lo <= GazePct(f) /\ GazePct(f) <= hi
        IN  /\ flt.by_gaze = SelectSeq(flt.faces, inside)
            /\ \A k \in 1..Len(flt.faces) :
                  /\ GazePct(flt.faces[k]) \in { lo, hi }
                        => InSeq(flt.faces[k], flt.by_gaze)
                  /\ GazePct(flt.faces[k]) \in { lo - 1, hi + 1 }
                        => ~InSeq(flt.faces[k], flt.by_gaze)

\* C18, witness: no face confirmed, a candidate at 0.60 is kept and one at
\* 0.61 is rejected
C18_Witness ==
    /\ flt.stage = "filtered"
    /\ Len(flt.confirmed) = 0
    /\ Len(flt.faces) = 2
    /\ GazePct(flt.faces[1]) = 60
    /\ GazePct(flt.faces[2]) = 61
    /\ flt.by_gaze = << flt.faces[1] >>

(***************************************************************************)
(* C19: __filterFacesByDimensions rejects a candidate of width             *)
(* INIT_MIN_W - 1 (23) and height >= INIT_MIN_H when the confirmed set is  *)
(* empty and keeps it when the confirmed set is non-empty; what it keeps   *)
(* is decided by w, h and the active threshold set alone, and is the same  *)
(* for every crop offset.                                                  *)
(***************************************************************************)
C19_DimensionsByThresholdSet ==
    flt.stage = "filtered" =>
        LET initial == Len(flt.confirmed) = 0
            size(f) == DimensionsOk(f, initial)
        IN  /\ \A k \in 1..Len(flt.faces) :
                  (flt.faces[k].w = INIT_MIN_W - 1 /\ flt.faces[k].h >= INIT_MIN_H)
                      => (InSeq(flt.faces[k], flt.by_dimensions) <=> ~initial)
            /\ flt.by_dimensions = SelectSeq(flt.faces, size)
            /\ \A crop_x0 \in CropOffsets :
                  filterFacesByDimensions(flt.faces, flt.confirmed, crop_x0)
                      = flt.by_dimensions

\* C19, witness: with a face confirmed, a candidate 23 wide and 30 high is
\* kept, next to one that is below the repeat width
C19_Witness ==
    /\ flt.stage = "filtered"
    /\ Len(flt.confirmed) > 0
    /\ Len(flt.faces) = 2
    /\ flt.faces[1].w = INIT_MIN_W - 1
    /\ flt.faces[1].h >= INIT_MIN_H
    /\ flt.faces[2].w < REPEAT_MIN_W
    /\ flt.by_dimensions = << flt.faces[1] >>

(***************************************************************************)
(* C20 (as stated): constructing the scaredycat TickController, once the   *)
(* client's connection is accepted, does not fail; it runs the full        *)
(* unpause sequence (the servo ramp, then 5 magnet pulses) and leaves      *)
(* paused False before run() reads its first message.                      *)
(***************************************************************************)
C20_ConstructionUnpauses ==
    ("Construction" \in running) =>
        /\ tc_pc # "attribute_error"
        /\ (tc_pc = "read" /\ tc_recv = <<>> /\ tc_last.signal = "")
              => /\ tc_has_paused
                 /\ ~tc_paused
                 /\ IsUnpauseSequence(tc_log)

(***************************************************************************)
(* Helpers of the properties of the watchcat TickController.               *)
(***************************************************************************)
\* the innermost call of __unpause in progress
WTTop == wt_stack[Len(wt_stack)]

\* the servo position that goes with a message
WTPositionOf(signal) ==
    IF signal = PAUSE_SIGNAL THEN WT_SERVO_PAUSE_POSITION
    ELSE WT_SERVO_UNPAUSE_POSITION

\* this step is a bounded-timeout poll of __unpause reading a message
WTPollReads == wt_pc = "unpause" /\ Len(chan') < Len(chan)

\* this step is the return of a call of __unpause
WTReturns == Len(wt_stack') < Len(wt_stack)

(***************************************************************************)
(* C21: in the watchcat TickController, when a bounded-timeout poll of the *)
(* unpause pulse sequence reads a message, no further pulse of the         *)
(* interrupted sequence is started, the message's own transition is        *)
(* carried out in full (a PAUSE sets paused and commands the paused        *)
(* position; a RUN clears paused, commands the unpaused position and runs  *)
(* a pulse sequence of its own from its head, which returns only           *)
(* exhausted or interrupted in its turn), and when the interrupted         *)
(* __unpause returns the magnet is off and paused and the last servo       *)
(* command are those of the message received last.                         *)
(***************************************************************************)
C21_TransitionInFull ==
    WTPollReads =>
        IF recv_msg(chan) = PAUSE_SIGNAL
        THEN /\ wt_paused'
             /\ wt_servo' = WT_SERVO_PAUSE_POSITION
             /\ Len(wt_stack') = Len(wt_stack)
        ELSE IF recv_msg(chan) = RUN_SIGNAL
        THEN /\ ~wt_paused'
             /\ wt_servo' = WT_SERVO_UNPAUSE_POSITION
             /\ Len(wt_stack') = Len(wt_stack) + 1
             /\ wt_stack'[Len(wt_stack')] = WTFrame
        ELSE wt_pc' = "raised"

C21_NoFurtherPulse ==
    (wt_pc = "unpause" /\ WTTop.cut /\ ~WTReturns) =>
        /\ wt_magnet' => wt_magnet
        /\ wt_stack'[Len(wt_stack)].i = WTTop.i

C21_ReturnState ==
    WTReturns =>
        /\ ~wt_magnet'
        /\ IF WTTop.cut
           THEN /\ wt_paused' = (wt_last.signal = PAUSE_SIGNAL)
                /\ wt_servo' = WTPositionOf(wt_last.signal)
           ELSE WTTop.i = WT_NUM_PULSES - 1 /\ WTTop.at = "poll_off"

TCServoCommanded ==
    /\ Len(tc_log') = Len(tc_log) + 1
    /\ IsServoOut(Last(tc_log'))

\* C23: no command jumps
C23_ServoNeverJumps ==
    [][ (TCServoCommanded /\ tc_servo # 0) =>
            \/ tc_servo' = tc_servo + RAMP_STEP
            \/ tc_servo' = tc_servo - RAMP_STEP ]_vars

C23_Witness ==
    /\ tc_pc = "unpause_ramp"
    /\ tc_servo = SERVO_PAUSE_POSITION
    /\ tc_last.signal = UNPAUSE_SIGNAL
    /\ tc_last.servo = SERVO_PAUSE_POSITION - RAMP_STEP

(***************************************************************************)
(* C24: immediately after a detector (ScaredyCat.run, WatchCat.run) has    *)
(* processed a frame: if the frame was non-empty and                       *)
(* num_consecutive_face_frames >= N_confirm then                           *)
(* num_consecutive_empty_frames = 0; if the frame was empty and            *)
(* num_consecutive_empty_frames >= N_unconfirm then                        *)
(* num_consecutive_face_frames = 0 and the confirmed set is empty.         *)
(***************************************************************************)
C24_ThresholdResetsOther ==
    /\ sc_frames > 0 =>
          /\ ( /\ Len(sc_last.faces) > 0
               /\ sc_num_consecutive_face_frames
                      >= SC_NUM_CONSECUTIVE_FACE_FRAMES_TO_CONFIRM_FACE )
                => sc_num_consecutive_empty_frames = 0
          /\ ( /\ Len(sc_last.faces) = 0
               /\ sc_num_consecutive_empty_frames
                      >= SC_NUM_CONSECUTIVE_EMPTY_FRAMES_TO_CONFIRM_EMPTY )
                => /\ sc_num_consecutive_face_frames = 0
                   /\ sc_confirmed_face_locations = <<>>
    /\ wc_frames > 0 =>
          /\ ( /\ Len(wc_last.faces) > 0
               /\ wc_num_consecutive_face_frames
                      >= WC_NUM_CONSECUTIVE_FACE_FRAMES_TO_CONFIRM_FACE )
                => wc_num_consecutive_empty_frames = 0
          /\ ( /\ Len(wc_last.faces) = 0
               /\ wc_num_consecutive_empty_frames
                      >= WC_NUM_CONSECUTIVE_EMPTY_FRAMES_TO_CONFIRM_EMPTY )
                => /\ wc_num_consecutive_face_frames = 0
                   /\ wc_confirmed_face_locations = <<>>

\* WatchCat confirms on its fourth frame, one earlier frame having been empty
C24_Witness ==
    /\ wc_frames = 4
    /\ Len(wc_last.faces) > 0
    /\ wc_last.sent = << PAUSE_SIGNAL >>
    /\ wc_num_consecutive_face_frames = WC_NUM_CONSECUTIVE_FACE_FRAMES_TO_CONFIRM_FACE
    /\ wc_num_consecutive_empty_frames = 0

(***************************************************************************)
(* C25: with the scaredycat detector as the only sender and the            *)
(* TickController starting in Running, every message the controller        *)
(* dequeues changes its paused flag (the early return of __pause and       *)
(* __unpause is never taken for a message from the channel), in every      *)
(* interleaving of detector frames and controller steps.                   *)
(***************************************************************************)
C25_EveryMessageFlips ==
    tc_last.signal # "" =>
        /\ tc_paused # tc_last.was_paused
        /\ tc_paused = (tc_last.signal = PAUSE_SIGNAL)

C25_Witness ==
    /\ running = { "ScaredyCat", "TickController" }
    /\ Len(tc_recv) = 2
    /\ tc_last.signal = UNPAUSE_SIGNAL
    /\ tc_last.was_paused
    /\ ~tc_paused
    /\ chan = << PAUSE_SIGNAL >>

(***************************************************************************)
(* Helpers of the properties of the Motor's phase patterns.                *)
(***************************************************************************)
\* the index (as in the source, from 0) of a pattern of STEP_SEQUENCE
PatternIndex(pins) ==
    CHOOSE k \in 0..(NUM_STEP_PATTERNS - 1) : STEP_SEQUENCE[k + 1] = pins

\* this step is a call of __step from run()'s loop
MotorLoopSteps == m_pc = "loop" /\ m_position' # m_position

(***************************************************************************)
(* C26 (as stated): on every step of the Motor the phase pattern written   *)
(* to the outputs is the neighbour, in the direction of travel, of the     *)
(* pattern the previous step wrote (index + 1 mod 8 moving right, - 1 mod  *)
(* 8 moving left), also on the first step after a reversal at an extreme.  *)
(***************************************************************************)
C26_PatternFollowsTravel ==
    [][ MotorLoopSteps =>
            PatternIndex(m_pins') =
                (PatternIndex(m_pins) + (m_position' - m_position))
                    % NUM_STEP_PATTERNS ]_vars

(***************************************************************************)
(* C27: at every iteration of Motor.run's loop after calibration the step  *)
(* counter is a function of the position: motor_step_counter =             *)
(* (position - RIGHT_POSITION) mod 8, for every sequence of RUN / PAUSE    *)
(* messages and any number of sweeps.                                      *)
(***************************************************************************)
C27_CounterFollowsPosition ==
    m_pc = "loop" =>
        m_motor_step_counter = (m_position - RIGHT_POSITION) % NUM_STEP_PATTERNS

\* paused at the left extreme, after the sweep from RIGHT_POSITION
C27_Witness ==
    /\ m_pc = "loop"
    /\ m_position = LEFT_POSITION
    /\ m_sweep.started
    /\ m_paused
    /\ m_motor_step_counter = 2

(***************************************************************************)
(* C28 (as stated): during Motor.calibrate_position, from construction at  *)
(* CENTER_POSITION until it returns, the position counter never leaves     *)
(* [LEFT_POSITION, RIGHT_POSITION], and it returns with position =         *)
(* RIGHT_POSITION (the second conjunct: run()'s loop has started no        *)
(* iteration yet).                                                         *)
(***************************************************************************)
C28_CalibrationInRange ==
    "Motor" \in running =>
        /\ m_pc = "calibrate" =>
              m_position >= LEFT_POSITION /\ m_position <= RIGHT_POSITION
        /\ (m_pc = "loop" /\ m_last.pins = <<0, 0, 0, 0>>) =>
              m_position = RIGHT_POSITION

(***************************************************************************)
(* C29: under fair scheduling of Motor.run's loop, if every PAUSE is       *)
(* eventually followed by a RUN and no unknown message arrives, the        *)
(* position is LEFT_POSITION infinitely often and RIGHT_POSITION           *)
(* infinitely often: the stepper keeps sweeping, stuck neither at an       *)
(* extreme nor between the extremes.                                       *)
(***************************************************************************)
C29_KeepsSweeping ==
    ( /\ [](m_pc # "raised")
      /\ [](m_signal = PAUSE_SIGNAL => <>(m_signal = RUN_SIGNAL)) )
    => ( /\ []<>(m_position = LEFT_POSITION)
         /\ []<>(m_position = RIGHT_POSITION) )

\* back at the right extreme after a whole sweep from the left one
C29_Witness ==
    /\ m_pc = "loop"
    /\ m_position = RIGHT_POSITION
    /\ m_sweep.started
    /\ m_sweep.steps = FULL_SWEEP
    /\ m_last.signal = RUN_SIGNAL

(***************************************************************************)
(* C30: the repeat thresholds of ScaredyCat are at least as permissive as  *)
(* the initial ones on every criterion (score, dimensions, gaze), so a     *)
(* candidate that passes the three filters while the confirmed set is      *)
(* empty also passes them when the confirmed set is non-empty: the         *)
(* detection that caused a PAUSE, repeated unchanged, is never filtered    *)
(* out, so never counts as an empty frame towards an UNPAUSE.              *)
(***************************************************************************)
\* every candidate of sequence s is a candidate of sequence t
WithinSeq(s, t) == \A k \in 1..Len(s) : InSeq(s[k], t)

\* C30: what the initial set keeps, the repeat set keeps, filter by filter
C30_RepeatAtLeastAsPermissive ==
    (flt.stage = "filtered" /\ Len(flt.confirmed) = 0) =>
        \A confirmed \in FilterConfirmed :
            Len(confirmed) > 0 =>
                /\ WithinSeq(flt.by_score,
                             filterFacesByScore(flt.faces, confirmed))
                /\ WithinSeq(flt.by_dimensions,
                             filterFacesByDimensions(flt.faces, confirmed,
                                                     flt.crop_x0))
                /\ WithinSeq(flt.by_gaze,
                             filterFacesByGaze(flt.faces, confirmed))
                /\ WithinSeq(flt.out,
                             SCFilter(flt.faces, confirmed, flt.crop_x0))

\* one candidate passes both sets (its gaze on the edge of the initial
\* range), the other passes the repeat set only
C30_Witness ==
    /\ flt.stage = "filtered"
    /\ Len(flt.confirmed) = 0
    /\ Len(flt.faces) = 2
    /\ flt.out = << flt.faces[1] >>
    /\ GazePct(flt.faces[1]) = 60
    /\ \E confirmed \in FilterConfirmed :
          SCFilter(flt.faces, confirmed, flt.crop_x0) = flt.faces

====
